---------------------------- MODULE Spec2Model ----------------------------
(***************************************************************************)
(* A model of generate_prompts.go: the city fetch loop, the unique-entry   *)
(* generator, the two position samplers and the render loop of main.       *)
(* Each component has its own specification (SpecFetch, SpecGen,           *)
(* SpecSample, SpecRender); the variables of the other components stay at  *)
(* their idle values.  Go slices are sequences; Go indices are 0-based and *)
(* are kept 0-based (At(s, i) reads s[i]).                                 *)
(***************************************************************************)
EXTENDS Integers, Sequences, FiniteSets, TLC

VARIABLES
    \* fetchCitiesFromAPI
    numToFetch, targetUnique, i, cities, seenCities, fpc, fret, ferr, resps,
    \* generateRandomData
    numEntries, availableCities, data, usedNames, attempts, gpc, gret, gerr,
    \* randomSampleNames / randomSampleEntries
    names, entries, k, indices, sampledNames, sampledEntries, spc,
    \* main: the render loop
    masterData, dataBlockString, cfgIdx, generatedCount, templateData, selectedNames, canGenerate,
    files, outcomes, ioFailures, rpc

fvars == <<numToFetch, targetUnique, i, cities, seenCities, fpc, fret, ferr, resps>>
gvars == <<numEntries, availableCities, data, usedNames, attempts, gpc, gret, gerr>>
svars == <<names, entries, k, indices, sampledNames, sampledEntries, spc>>
rvars == <<masterData, dataBlockString, cfgIdx, generatedCount, templateData, selectedNames,
           canGenerate, files, outcomes, ioFailures, rpc>>
vars == <<fvars, gvars, svars, rvars>>

-----------------------------------------------------------------------------
(* Bounds of the model *)

\* numToFetch is drawn from 0..MaxAttempts
MaxAttempts == 4
\* targetUnique is drawn from 0..MaxTarget
MaxTarget == 3
\* numEntries is drawn from 0..MaxCount
MaxCount == 2
\* sampler pools have at most MaxPool elements
MaxPool == 3
\* the render loop's dataset has 1..MaxData entries
MaxData == 16
\* at most MaxIOFailures parse/execute/write failures are injected in one run
MaxIOFailures == 1

(* Program constants *)
MIN_AGE == 18
MAX_AGE == 90

-----------------------------------------------------------------------------
(* Common helpers *)

\* s[i] of a Go slice (0-based)
At(s, idx) == s[idx + 1]

Range(s) == {s[j] : j \in 1..Len(s)}

\* the index slice 0, 1, ..., n-1
Iota(n) == [j \in 1..n |-> j - 1]

Swap(s, a, b) == [s EXCEPT ![a + 1] = s[b + 1], ![b + 1] = s[a + 1]]

\* rand.Intn(n): any value of 0..n-1
Intn(n) == 0..(n - 1)

\* the draws of rand.Intn(n) the generator is run with: both ends of the range
IntnDraws(n) == {0, n - 1} \cap Intn(n)

\* rand.Shuffle(n, swap) on s: for i = n-1 down to 1, j = Intn(i+1), swap(i, j).
\* The set of all the slices it can leave.
RECURSIVE ShuffleFrom(_, _)
ShuffleFrom(s, hi) ==
    IF hi < 1 THEN {s}
    ELSE UNION {ShuffleFrom(Swap(s, hi, j), hi - 1) : j \in Intn(hi + 1)}

Shuffle(s) == ShuffleFrom(s, Len(s) - 1)

-----------------------------------------------------------------------------
(* fetchCitiesFromAPI(numToFetch, targetUnique) *)

\* the city names the service may answer with
CityNames == {"Paris", "Rome", "Oslo"}

\* one answer of the service to client.Get: a transport error, a non-OK status,
\* a body that does not decode, or a decoded body with a city (maybe empty)
Responses ==
    {[kind |-> kd, city |-> ""] : kd \in {"transportErr", "nonOK", "decodeErr"}}
    \cup {[kind |-> "ok", city |-> c] : c \in CityNames \cup {""}}

FetchIdle ==
    /\ numToFetch = 0 /\ targetUnique = 0 /\ i = 0 /\ cities = <<>>
    /\ seenCities = {} /\ fpc = "idle" /\ fret = <<>> /\ ferr = "none"
    /\ resps = <<>>

InitFetchVars ==
    /\ numToFetch \in 0..MaxAttempts
    /\ targetUnique \in 0..MaxTarget
    /\ i = 0
    /\ cities = <<>>
    /\ seenCities = {}
    /\ fpc = "loop"
    /\ fret = <<>>
    /\ ferr = "none"
    /\ resps = <<>>

\* the loop condition of line 85
FetchLoopCondMut(idx, n, seen, target) == idx < n /\ Cardinality(seen) <= target
FetchLoopCond(idx, n, seen, target) == idx < n /\ Cardinality(seen) < target

\* the test of line 107
IsNewCityMut(city, seen) == city # ""
IsNewCity(city, seen) == city # "" /\ city \notin seen

\* lines 118-122: the error when nothing was collected
FetchErrorMut(cs) == "none"
FetchError(cs) == IF Len(cs) = 0 THEN "NoCitiesAvailable" ELSE "none"

\* lines 86-105: the request failed (transport error, non-OK status or a body
\* that does not decode): log, continue
FetchAttemptFails ==
    /\ fpc = "loop"
    /\ FetchLoopCond(i, numToFetch, seenCities, targetUnique)
    /\ \E r \in {x \in Responses : x.kind # "ok"} : resps' = Append(resps, r)
    /\ i' = i + 1
    /\ UNCHANGED <<numToFetch, targetUnique, cities, seenCities, fpc, fret, ferr>>
    /\ UNCHANGED <<gvars, svars, rvars>>

\* lines 86-115: the request succeeded and decoded
FetchAttemptDecodes ==
    /\ fpc = "loop"
    /\ FetchLoopCond(i, numToFetch, seenCities, targetUnique)
    /\ \E r \in {x \in Responses : x.kind = "ok"} :
          /\ resps' = Append(resps, r)
          /\ IF IsNewCity(r.city, seenCities)
             THEN /\ seenCities' = seenCities \cup {r.city}
                  /\ cities' = Append(cities, r.city)
             ELSE UNCHANGED <<seenCities, cities>>
    /\ i' = i + 1
    /\ UNCHANGED <<numToFetch, targetUnique, fpc, fret, ferr>>
    /\ UNCHANGED <<gvars, svars, rvars>>

\* lines 118-122: the loop is over
FetchReturn ==
    /\ fpc = "loop"
    /\ ~FetchLoopCond(i, numToFetch, seenCities, targetUnique)
    /\ ferr' = FetchError(cities)
    /\ fret' = IF ferr' = "none" THEN cities ELSE <<>>
    /\ fpc' = "done"
    /\ UNCHANGED <<numToFetch, targetUnique, i, cities, seenCities, resps>>
    /\ UNCHANGED <<gvars, svars, rvars>>

NextFetch == FetchAttemptFails \/ FetchAttemptDecodes \/ FetchReturn

-----------------------------------------------------------------------------
(* generateRandomData(numEntries, availableCities) *)

predefinedJobTitles ==
    << "Software Engineer", "Project Manager", "Data Scientist", "Product Manager",
       "Accountant", "Graphic Designer", "Marketing Manager", "Sales Representative",
       "Customer Service Representative", "Human Resources Manager", "Teacher",
       "Nurse", "Doctor", "Lawyer", "Chef", "Mechanic", "Electrician", "Plumber",
       "Consultant", "Analyst", "Administrator", "Receptionist", "Web Developer",
       "UX Designer", "System Administrator", "DevOps Engineer", "Business Analyst",
       "Financial Advisor", "Architect", "Civil Engineer", "Mechanical Engineer",
       "Artist", "Writer", "Editor", "Photographer", "Scientist", "Researcher",
       "Librarian", "Police Officer", "Firefighter" >>

\* what faker.FakeData may fill nameHelper with
FirstNames == {"Ann", "Bo", "Cy"}
LastNames == {"Lee"}

\* fmt.Sprintf("%s %s", first, last)
FullName(first, last) == first \o " " \o last

\* the city pools the generator is run with (a fetched pool has no repeats)
CityPools == {<<>>, <<"Paris">>, <<"Paris", "Rome">>}

PersonEntry(name, age, city, jobTitle) ==
    [Name |-> name, Age |-> age, City |-> city, JobTitle |-> jobTitle]

GenIdle ==
    /\ numEntries = 0 /\ availableCities = <<>> /\ data = <<>> /\ usedNames = {}
    /\ attempts = 0 /\ gpc = "idle" /\ gret = <<>> /\ gerr = "none"

InitGenVars ==
    /\ numEntries \in 0..MaxCount
    /\ availableCities \in CityPools
    /\ data = <<>>
    /\ usedNames = {}
    /\ attempts = 0
    /\ gpc = "start"
    /\ gret = <<>>
    /\ gerr = "none"

\* line 138
GenMaxAttempts(n) == n * 5

\* the loop condition of line 141
GenLoopCondMut(len, n, att) == len < n /\ att <= GenMaxAttempts(n)
GenLoopCond(len, n, att) == len < n /\ att < GenMaxAttempts(n)

\* the test of line 152
NameIsFreeMut(name, used) == TRUE
NameIsFree(name, used) == name \notin used

\* line 154, from the draw of rand.Intn(MAX_AGE-MIN_AGE+1)
AgeOfMut(draw) == draw + MIN_AGE + 1
AgeOf(draw) == draw + MIN_AGE

\* lines 127-139: the two input checks
GenStart ==
    /\ gpc = "start"
    /\ IF Len(availableCities) = 0
       THEN gerr' = "EmptyCityPool" /\ gpc' = "done"
       ELSE IF Len(predefinedJobTitles) = 0
            THEN gerr' = "EmptyJobCatalog" /\ gpc' = "done"
            ELSE gerr' = "none" /\ gpc' = "loop"
    /\ UNCHANGED <<numEntries, availableCities, data, usedNames, attempts, gret>>
    /\ UNCHANGED <<fvars, svars, rvars>>

\* lines 141-149: faker.FakeData fails: the attempt is used up
GenNameFails ==
    /\ gpc = "loop"
    /\ GenLoopCond(Len(data), numEntries, attempts)
    /\ attempts' = attempts + 1
    /\ UNCHANGED <<numEntries, availableCities, data, usedNames, gpc, gret, gerr>>
    /\ UNCHANGED <<fvars, svars, rvars>>

\* lines 141-161: a name was made; it is kept when it is new
GenNameMade ==
    /\ gpc = "loop"
    /\ GenLoopCond(Len(data), numEntries, attempts)
    /\ attempts' = attempts + 1
    /\ \E first \in FirstNames, last \in LastNames :
          LET name == FullName(first, last) IN
          IF NameIsFree(name, usedNames)
          THEN /\ usedNames' = usedNames \cup {name}
               /\ \E a \in IntnDraws(MAX_AGE - MIN_AGE + 1),
                     c \in IntnDraws(Len(availableCities)),
                     j \in IntnDraws(Len(predefinedJobTitles)) :
                     data' = Append(data,
                                 PersonEntry(name, AgeOf(a), At(availableCities, c),
                                             At(predefinedJobTitles, j)))
          ELSE UNCHANGED <<usedNames, data>>
    /\ UNCHANGED <<numEntries, availableCities, gpc, gret, gerr>>
    /\ UNCHANGED <<fvars, svars, rvars>>

\* lines 164-170: the loop is over: shuffle and return
GenReturn ==
    /\ gpc = "loop"
    /\ ~GenLoopCond(Len(data), numEntries, attempts)
    /\ data' \in Shuffle(data)
    /\ gret' = data'
    /\ gpc' = "done"
    /\ UNCHANGED <<numEntries, availableCities, usedNames, attempts, gerr>>
    /\ UNCHANGED <<fvars, svars, rvars>>

NextGen == GenStart \/ GenNameFails \/ GenNameMade \/ GenReturn

-----------------------------------------------------------------------------
(* randomSampleNames(names, k) and randomSampleEntries(entries, k) *)

\* the entries the sampler's pools are built from; a pool may hold one twice
SampleEntryPool ==
    { PersonEntry("Ann Lee", 30, "Paris", "Nurse"),
      PersonEntry("Bo Lee", 55, "Rome", "Chef") }

SeqsUpTo(S, n) == UNION {[1..m -> S] : m \in 0..n}

\* main, lines 248-251: allNames[i] = entry.Name
AllNames(es) == [j \in 1..Len(es) |-> es[j].Name]

SampleIdle ==
    /\ names = <<>> /\ entries = <<>> /\ k = 0 /\ indices = <<>>
    /\ sampledNames = <<>> /\ sampledEntries = <<>> /\ spc = "idle"

InitSampleVars ==
    /\ entries \in SeqsUpTo(SampleEntryPool, MaxPool)
    /\ names = AllNames(entries)
    /\ k \in -1..(MaxPool + 1)
    /\ indices = <<>>
    /\ sampledNames = <<>>
    /\ sampledEntries = <<>>
    /\ spc = "call"

\* lines 188-193 and 207-212: k clamped into 0..n
ClampK(kk, n) == IF kk < 0 THEN 0 ELSE IF kk > n THEN n ELSE kk

\* lines 194-198 and 213-217: the index slice 0..n-1, shuffled
ShuffledIndicesMut(n) == [1..n -> Intn(n)]
ShuffledIndices(n) == Shuffle(Iota(n))

\* lines 199-203 and 218-222: the first k shuffled positions of the pool
TakeSample(pool, kk, idxs) == [j \in 1..kk |-> At(pool, idxs[j])]

randomSampleNames ==
    /\ spc = "call"
    /\ \E idxs \in ShuffledIndices(Len(names)) :
          /\ indices' = idxs
          /\ sampledNames' = TakeSample(names, ClampK(k, Len(names)), idxs)
    /\ spc' = "names"
    /\ UNCHANGED <<names, entries, k, sampledEntries>>
    /\ UNCHANGED <<fvars, gvars, rvars>>

randomSampleEntries ==
    /\ spc = "call"
    /\ \E idxs \in ShuffledIndices(Len(entries)) :
          /\ indices' = idxs
          /\ sampledEntries' = TakeSample(entries, ClampK(k, Len(entries)), idxs)
    /\ spc' = "entries"
    /\ UNCHANGED <<names, entries, k, sampledNames>>
    /\ UNCHANGED <<fvars, gvars, rvars>>

NextSample == randomSampleNames \/ randomSampleEntries

-----------------------------------------------------------------------------
(* main: the render loop over promptConfigs *)

OUTPUT_DIR == "prompts_with_data_api_cities_list_jobs"

Digit(d) == At(<<"0", "1", "2", "3", "4", "5", "6", "7", "8", "9">>, d)

\* strconv.Itoa and fmt's %d, for n >= 0
RECURSIVE Itoa(_)
Itoa(n) == IF n < 10 THEN Digit(n) ELSE Itoa(n \div 10) \o Digit(n % 10)

\* strings.Join
RECURSIVE Join(_, _)
Join(strs, sep) ==
    IF Len(strs) = 0 THEN ""
    ELSE IF Len(strs) = 1 THEN strs[1]
    ELSE strs[1] \o sep \o Join(Tail(strs), sep)

\* lines 174-183
FormatEntry(e) ==
    "Name: " \o e.Name \o " | Age: " \o Itoa(e.Age) \o " | City: " \o e.City
        \o " | Job Title: " \o e.JobTitle

formatDataBlock(d) == Join([j \in 1..Len(d) |-> FormatEntry(d[j])], "\n")

\* lines 255-272: the catalog; the template texts are left out
NoFlags ==
    [Desc |-> "", QueryCount |-> 0, QueryIndices |-> <<>>, IsSequential |-> FALSE,
     NonExistentName |-> "", IsReverseLookup |-> FALSE, IsCombinedRequest |-> FALSE,
     IsConfirmation |-> FALSE, IsMultiCity |-> FALSE, IsMultiJob |-> FALSE,
     IsMultiAgeCity |-> FALSE, IsMultiCount |-> FALSE]

promptConfigs(md) ==
    << [NoFlags EXCEPT !.Desc = "01_standard_retrieval_10", !.QueryCount = 10],
       [NoFlags EXCEPT !.Desc = "02_different_phrasing_10", !.QueryCount = 10],
       [NoFlags EXCEPT !.Desc = "03_fewer_items_5", !.QueryCount = 5],
       [NoFlags EXCEPT !.Desc = "04_more_items_15", !.QueryCount = 15],
       [NoFlags EXCEPT !.Desc = "05_start_end_focus_2",
                       !.QueryIndices = <<1, Len(md) - 2>>],
       [NoFlags EXCEPT !.Desc = "06_reverse_lookup_name", !.QueryCount = 2,
                       !.IsReverseLookup = TRUE],
       [NoFlags EXCEPT !.Desc = "07_combined_request", !.QueryCount = 3,
                       !.IsCombinedRequest = TRUE],
       [NoFlags EXCEPT !.Desc = "08_sequential_names_5", !.IsSequential = TRUE],
       [NoFlags EXCEPT !.Desc = "09_widely_spaced_names_10", !.QueryCount = 10],
       [NoFlags EXCEPT !.Desc = "10_retrieval_confirmation", !.QueryCount = 8,
                       !.IsConfirmation = TRUE, !.NonExistentName = "Slartibartfast"],
       [NoFlags EXCEPT !.Desc = "11_filter_city_get_name_job", !.IsMultiCity = TRUE],
       [NoFlags EXCEPT !.Desc = "12_filter_job_get_name_age", !.IsMultiJob = TRUE],
       [NoFlags EXCEPT !.Desc = "13_filter_age_city_get_name",
                       !.IsMultiAgeCity = TRUE],
       [NoFlags EXCEPT !.Desc = "14_count_job_city", !.IsMultiCount = TRUE],
       [NoFlags EXCEPT !.Desc = "15_filter_job_retrieve_all", !.IsMultiJob = TRUE] >>

\* lines 285-286
FilePath(config) == OUTPUT_DIR \o "/" \o "prompt_" \o config.Desc \o ".txt"

\* the shuffles the render loop's samplers are run with: the identity, the
\* reversal, a rotation by one and a swap of the two ends
RenderShuffles(n) ==
    { Iota(n),
      [j \in 1..n |-> n - j],
      [j \in 1..n |-> j % n],
      [j \in 1..n |-> IF j = 1 THEN n - 1 ELSE IF j = n THEN 0 ELSE j - 1] }

\* the draws of rand.Intn(n) the render loop is run with: both ends of the
\* range and its middle
RenderDraws(n) == {0, n \div 2, n - 1} \cap Intn(n)

\* lines 294-300
MinRequiredDataMut(config) == 1
MinRequiredData(config) ==
    IF config.IsCombinedRequest THEN 3
    ELSE IF config.IsReverseLookup THEN 2
    ELSE config.QueryCount

\* lines 330-335
ClampIndex(idx, n) == IF idx >= n THEN n - 1 ELSE idx

\* lines 371-381
AgeWindow(midAge) ==
    LET lo0 == IF midAge - 5 < MIN_AGE THEN MIN_AGE ELSE midAge - 5
        hi  == IF midAge + 5 > MAX_AGE THEN MAX_AGE ELSE midAge + 5
        lo  == IF lo0 > hi THEN hi ELSE lo0
    IN  <<lo, hi>>

\* what one pass through the populate block can leave: canGenerate, templateData
\* and selectedNames
Populated(can, td, sel) == [can |-> can, td |-> td, sel |-> sel]

\* lines 293-324
PopulateFixedCount(config, md, base) ==
    LET allNames == AllNames(md)
        n == Len(md)
    IN
    IF n < MinRequiredData(config)
    THEN {Populated(FALSE, base, <<>>)}
    ELSE
      UNION {
        LET sel == TakeSample(allNames, ClampK(config.QueryCount, n), idxs)
            td1 == [QueryItemsFormatted |-> "- " \o Join(sel, "\n- "),
                    QueryItemsFormattedInline |-> Join(sel, ", ")] @@ base
        IN
        IF config.IsReverseLookup
        THEN { LET es == TakeSample(md, ClampK(2, n), i2)
               IN  Populated(TRUE,
                             [QueryAge1 |-> es[1].Age, QueryAge2 |-> es[2].Age] @@ td1,
                             sel)
               : i2 \in RenderShuffles(n) }
        ELSE IF config.IsCombinedRequest
        THEN { LET es == TakeSample(md, ClampK(3, n), i3)
               IN  Populated(TRUE,
                             [QueryName1 |-> es[1].Name, QueryName2 |-> es[2].Name,
                              QueryAge3 |-> es[3].Age] @@ td1,
                             sel)
               : i3 \in RenderShuffles(n) }
        ELSE IF config.IsConfirmation
        THEN { LET sel2 == IF Len(allNames) < config.QueryCount
                           THEN TakeSample(allNames, ClampK(Len(allNames), n), i4)
                           ELSE sel
               IN  Populated(TRUE,
                             [QueryItemsFormattedInline |-> Join(sel2, ", "),
                              NonExistentName |-> config.NonExistentName] @@ td1,
                             sel2)
               : i4 \in IF Len(allNames) < config.QueryCount
                        THEN RenderShuffles(n) ELSE {<<>>} }
        ELSE {Populated(TRUE, td1, sel)}
        : idxs \in RenderShuffles(n) }

\* lines 325-342
PopulateIndexPair(config, md, base) ==
    LET realIdx1 == ClampIndex(config.QueryIndices[1], Len(md))
        realIdx2 == ClampIndex(config.QueryIndices[2], Len(md))
    IN
    IF realIdx1 < 0 \/ realIdx2 < 0
    THEN {Populated(FALSE, base, <<>>)}
    ELSE {Populated(TRUE,
                    [QueryName1 |-> At(md, realIdx1).Name,
                     QueryName2 |-> At(md, realIdx2).Name] @@ base,
                    <<>>)}

\* lines 343-352
PopulateSequential(config, md, base) ==
    IF Len(md) < 5
    THEN {Populated(FALSE, base, <<>>)}
    ELSE { Populated(TRUE,
                     [QueryName1 |-> At(md, startIndex).Name,
                      QueryName2 |-> At(md, startIndex + 1).Name,
                      QueryName3 |-> At(md, startIndex + 2).Name,
                      QueryName4 |-> At(md, startIndex + 3).Name,
                      QueryName5 |-> At(md, startIndex + 4).Name] @@ base,
                     <<>>)
           : startIndex \in RenderDraws(Len(md) - 4) }

\* lines 353-358
PopulateMultiCity(config, md, base) ==
    IF Len(md) = 0
    THEN {Populated(FALSE, base, <<>>)}
    ELSE { Populated(TRUE, [TargetCity |-> At(md, r).City] @@ base, <<>>)
           : r \in RenderDraws(Len(md)) }

\* lines 359-364
PopulateMultiJob(config, md, base) ==
    IF Len(md) = 0
    THEN {Populated(FALSE, base, <<>>)}
    ELSE { Populated(TRUE, [TargetJobTitle |-> At(md, r).JobTitle] @@ base, <<>>)
           : r \in RenderDraws(Len(md)) }

\* lines 365-384
PopulateMultiAgeCity(config, md, base) ==
    IF Len(md) = 0
    THEN {Populated(FALSE, base, <<>>)}
    ELSE { LET w == AgeWindow(At(md, r2).Age)
           IN  Populated(TRUE,
                         [TargetCity |-> At(md, r1).City,
                          MinAge |-> Itoa(w[1]), MaxAge |-> Itoa(w[2])] @@ base,
                         <<>>)
           : r1 \in RenderDraws(Len(md)), r2 \in RenderDraws(Len(md)) }

\* lines 385-392
PopulateMultiCount(config, md, base) ==
    IF Len(md) = 0
    THEN {Populated(FALSE, base, <<>>)}
    ELSE { Populated(TRUE,
                     [TargetJobTitle |-> At(md, r1).JobTitle,
                      TargetCity |-> At(md, r2).City] @@ base,
                     <<>>)
           : r1 \in RenderDraws(Len(md)), r2 \in RenderDraws(Len(md)) }

\* lines 287-393: the populate block
Populate(config, md, block) ==
    LET base == [DataBlock |-> block] IN
    IF config.QueryCount > 0 THEN PopulateFixedCount(config, md, base)
    ELSE IF Len(config.QueryIndices) > 0 THEN PopulateIndexPair(config, md, base)
    ELSE IF config.IsSequential THEN PopulateSequential(config, md, base)
    ELSE IF config.IsMultiCity THEN PopulateMultiCity(config, md, base)
    ELSE IF config.IsMultiJob THEN PopulateMultiJob(config, md, base)
    ELSE IF config.IsMultiAgeCity THEN PopulateMultiAgeCity(config, md, base)
    ELSE IF config.IsMultiCount THEN PopulateMultiCount(config, md, base)
    ELSE {Populated(TRUE, base, <<>>)}

\* the names of the render loop's datasets: pairwise distinct, as the
\* generator leaves them
DataFirstNames == <<"Ann", "Bo", "Cy", "Di", "Ed">>
DataLastNames == <<"Lee", "Kim", "Roy", "Paz">>

DataName(j) ==
    FullName(DataFirstNames[((j - 1) % 5) + 1], DataLastNames[(((j - 1) \div 5) % 4) + 1])

\* the datasets the render loop is run with: n entries whose attributes are
\* all the same, alternate between two kinds, or are spread over the ranges
DataVariants == {"uniform", "alternating", "spread"}

DataEntry(j, v) ==
    IF v = "uniform" THEN PersonEntry(DataName(j), 30, "Paris", "Nurse")
    ELSE IF v = "alternating"
    THEN IF j % 2 = 1 THEN PersonEntry(DataName(j), MIN_AGE, "Paris", "Nurse")
                      ELSE PersonEntry(DataName(j), MAX_AGE, "Rome", "Chef")
    ELSE PersonEntry(DataName(j),
                     MIN_AGE + (((j - 1) * 11) % (MAX_AGE - MIN_AGE + 1)),
                     At(<<"Paris", "Rome", "Oslo">>, (j - 1) % 3),
                     At(predefinedJobTitles, ((j - 1) * 7) % Len(predefinedJobTitles)))

DataSets == {[j \in 1..n |-> DataEntry(j, v)] : n \in 1..MaxData, v \in DataVariants}

RenderIdle ==
    /\ masterData = <<>> /\ dataBlockString = "" /\ cfgIdx = 0 /\ generatedCount = 0 /\ templateData = <<>>
    /\ selectedNames = <<>> /\ canGenerate = TRUE /\ files = <<>>
    /\ outcomes = <<>> /\ ioFailures = 0 /\ rpc = "idle"

\* main after line 281, with the dataset of line 239 (non-empty: line 243)
InitRenderVars ==
    /\ masterData \in DataSets
    /\ dataBlockString = formatDataBlock(masterData)
    /\ cfgIdx = 0
    /\ generatedCount = 0
    /\ templateData = <<>>
    /\ selectedNames = <<>>
    /\ canGenerate = TRUE
    /\ files = <<>>
    /\ outcomes = <<>>
    /\ ioFailures = 0
    /\ rpc = "loop"

CurrentConfig == At(promptConfigs(masterData), cfgIdx)

\* line 282: the range loop moves on to the next configuration
NextConfigMut(idx, out) == IF out = "skipped" THEN 15 ELSE idx + 1
NextConfig(idx, out) == idx + 1

\* lines 410-416: the count after a write that succeeded
CountWritten(cnt, fs) == cnt + 1

\* one iteration, up to the outcome out that is logged for it ("skipped",
\* "failed" or "written"); only a written file changes files and generatedCount
Iterate(p, out) ==
    /\ templateData' = p.td
    /\ selectedNames' = p.sel
    /\ canGenerate' = p.can
    /\ outcomes' = Append(outcomes, out)
    /\ cfgIdx' = NextConfig(cfgIdx, out)
    /\ UNCHANGED <<masterData, dataBlockString, rpc>>
    /\ UNCHANGED <<fvars, gvars, svars>>

\* lines 282-397: the requirements are not met: continue
RenderSkipped ==
    /\ rpc = "loop" /\ cfgIdx < Len(promptConfigs(masterData))
    /\ \E p \in Populate(CurrentConfig, masterData, dataBlockString) :
          /\ ~p.can
          /\ Iterate(p, "skipped")
    /\ UNCHANGED <<generatedCount, files, ioFailures>>

\* lines 399-403: template.Parse fails: continue
RenderParseFails ==
    /\ rpc = "loop" /\ cfgIdx < Len(promptConfigs(masterData))
    /\ ioFailures < MaxIOFailures
    /\ \E p \in Populate(CurrentConfig, masterData, dataBlockString) :
          /\ p.can
          /\ Iterate(p, "failed")
    /\ ioFailures' = ioFailures + 1
    /\ UNCHANGED <<generatedCount, files>>

\* lines 404-409: tmpl.Execute fails: continue
RenderExecuteFails ==
    /\ rpc = "loop" /\ cfgIdx < Len(promptConfigs(masterData))
    /\ ioFailures < MaxIOFailures
    /\ \E p \in Populate(CurrentConfig, masterData, dataBlockString) :
          /\ p.can
          /\ Iterate(p, "failed")
    /\ ioFailures' = ioFailures + 1
    /\ UNCHANGED <<generatedCount, files>>

\* lines 410-412: os.WriteFile fails
RenderWriteFails ==
    /\ rpc = "loop" /\ cfgIdx < Len(promptConfigs(masterData))
    /\ ioFailures < MaxIOFailures
    /\ \E p \in Populate(CurrentConfig, masterData, dataBlockString) :
          /\ p.can
          /\ Iterate(p, "failed")
    /\ ioFailures' = ioFailures + 1
    /\ UNCHANGED <<generatedCount, files>>

\* lines 410-416: the file is written
RenderWritten ==
    /\ rpc = "loop" /\ cfgIdx < Len(promptConfigs(masterData))
    /\ \E p \in Populate(CurrentConfig, masterData, dataBlockString) :
          /\ p.can
          /\ Iterate(p, "written")
    /\ files' = Append(files, FilePath(CurrentConfig))
    /\ generatedCount' = CountWritten(generatedCount, files)
    /\ UNCHANGED ioFailures

\* lines 420-421: the loop is over
RenderFinished ==
    /\ rpc = "loop" /\ cfgIdx >= Len(promptConfigs(masterData))
    /\ rpc' = "done"
    /\ UNCHANGED <<masterData, dataBlockString, cfgIdx, generatedCount,
                   templateData, selectedNames, canGenerate, files, outcomes, ioFailures>>
    /\ UNCHANGED <<fvars, gvars, svars>>

NextRender ==
    \/ RenderSkipped \/ RenderParseFails \/ RenderExecuteFails
    \/ RenderWriteFails \/ RenderWritten \/ RenderFinished

-----------------------------------------------------------------------------
(* The specifications *)

InitFetch == InitFetchVars /\ GenIdle /\ SampleIdle /\ RenderIdle
InitGen == FetchIdle /\ InitGenVars /\ SampleIdle /\ RenderIdle
InitSample == FetchIdle /\ GenIdle /\ InitSampleVars /\ RenderIdle
InitRender == FetchIdle /\ GenIdle /\ SampleIdle /\ InitRenderVars

SpecFetch == InitFetch /\ [][NextFetch]_vars
SpecGen == InitGen /\ [][NextGen]_vars
\* the generator's loop is straight-line code: a step that can be taken is taken
SpecGenFair == InitGen /\ [][NextGen]_vars /\ WF_vars(NextGen)
SpecSample == InitSample /\ [][NextSample]_vars
SpecRender == InitRender /\ [][NextRender]_vars

-----------------------------------------------------------------------------
(* fetchCitiesFromAPI: the claims *)

NoRepeats(s) == \A a, b \in 1..Len(s) : a # b => s[a] # s[b]

\* every answer so far was a valid, non-empty city not answered before
AllFresh(rs) ==
    /\ \A j \in 1..Len(rs) : rs[j].kind = "ok" /\ rs[j].city # ""
    /\ NoRepeats(rs)

\* every request so far failed in transport or with a non-success status
AllFailed(rs) == \A j \in 1..Len(rs) : rs[j].kind \in {"transportErr", "nonOK"}

\* the valid cities of the answers, each once, in the order first answered
RECURSIVE FirstSeen(_)
FirstSeen(rs) ==
    IF Len(rs) = 0 THEN <<>>
    ELSE LET before == FirstSeen(SubSeq(rs, 1, Len(rs) - 1))
             r == rs[Len(rs)]
         IN  IF r.kind = "ok" /\ r.city # "" /\ r.city \notin Range(before)
             THEN Append(before, r.city)
             ELSE before

\* C1: against a service whose every answer is a valid city not seen before,
\* with numToFetch >= targetUnique = N >= 1, every request adds one city, there
\* are never more than N requests or N collected cities, and the call ends
\* after exactly N requests returning exactly N cities.
C1_StopsAfterTarget ==
    (numToFetch >= targetUnique /\ targetUnique >= 1 /\ AllFresh(resps)) =>
        /\ i = Len(resps)
        /\ Len(cities) = Len(resps)
        /\ Len(resps) <= targetUnique
        /\ Len(cities) <= targetUnique
        /\ fpc = "done" =>
              /\ Len(resps) = targetUnique
              /\ ferr = "none"
              /\ Len(fret) = targetUnique

C1_Witness ==
    /\ fpc = "done" /\ AllFresh(resps)
    /\ targetUnique = 2 /\ numToFetch = 4
    /\ Len(resps) = 2 /\ Len(fret) = 2

\* C2: against a service whose every request fails (transport error or
\* non-success status), with targetUnique >= 1, no city is ever collected, and
\* the call ends after exactly numToFetch requests with the "no cities
\* available" error and a nil result.
C2_AllFailuresGiveError ==
    (targetUnique >= 1 /\ AllFailed(resps)) =>
        /\ cities = <<>>
        /\ i = Len(resps)
        /\ fpc = "done" =>
              /\ Len(resps) = numToFetch
              /\ ferr = "NoCitiesAvailable"
              /\ fret = <<>>

C2_Witness ==
    /\ fpc = "done" /\ AllFailed(resps) /\ targetUnique = 2
    /\ numToFetch = 3 /\ Len(resps) = 3
    /\ resps[1].kind = "transportErr" /\ resps[2].kind = "nonOK"
    /\ ferr = "NoCitiesAvailable"

\* C3: the collected list is always the valid cities answered so far, each
\* once, in first-seen order (an answer already seen adds nothing to the list
\* or to the unique count); the loop ends only once targetUnique distinct
\* cities are collected or numToFetch requests were made; and when the requests
\* run out with at least one but fewer than targetUnique cities, the call
\* succeeds and returns exactly that list.
C3_DuplicatesAndPartialResult ==
    /\ i = Len(resps)
    /\ cities = FirstSeen(resps)
    /\ NoRepeats(cities)
    /\ Cardinality(seenCities) = Len(cities)
    /\ fpc = "done" => (Len(cities) >= targetUnique \/ Len(resps) >= numToFetch)
    /\ (fpc = "done" /\ Len(cities) >= 1 /\ Len(cities) < targetUnique) =>
          /\ Len(resps) = numToFetch
          /\ ferr = "none"
          /\ fret = FirstSeen(resps)

C3_Witness ==
    /\ fpc = "done" /\ targetUnique = 2 /\ numToFetch = 4 /\ Len(resps) = 4
    /\ resps[1] = [kind |-> "ok", city |-> "Paris"]
    /\ resps[2] = resps[1] /\ resps[3] = resps[1]
    /\ ferr = "none" /\ fret = <<"Paris">>

-----------------------------------------------------------------------------
(* generateRandomData: the claims *)

NoSharedName(d) == \A a, b \in 1..Len(d) : a # b => d[a].Name # d[b].Name

\* C4: no two entries of the dataset share a name: while the loop runs, after
\* the shuffle, and when fewer than numEntries entries are returned.
C4_UniqueNames == NoSharedName(data) /\ NoSharedName(gret)

C4_Witness ==
    /\ gpc = "done" /\ numEntries = 2 /\ Len(gret) = 1
    /\ attempts = 10 /\ usedNames = {"Bo Lee"}

\* C5: every entry has its city from the city pool, its job title from the
\* job-title catalog and its age in 18..90.
C5_EntryFieldsInRange ==
    \A e \in Range(data) \cup Range(gret) :
        /\ e.City \in Range(availableCities)
        /\ e.JobTitle \in Range(predefinedJobTitles)
        /\ e.Age >= 18 /\ e.Age <= 90

C5_Witness ==
    /\ gpc = "done" /\ Len(gret) = 2
    /\ gret[1].Age = 90 /\ gret[2].Age = 18
    /\ gret[1].City = "Rome" /\ gret[2].City = "Paris"
    /\ gret[1].JobTitle = "Firefighter"

C6_Bounded ==
    /\ attempts <= numEntries * 5
    /\ Len(data) <= numEntries
    /\ gerr # "none" => Len(availableCities) = 0 \/ Len(predefinedJobTitles) = 0
    /\ (gpc = "done" /\ Len(availableCities) > 0) =>
          /\ gerr = "none"
          /\ gret = data
          /\ Len(gret) = numEntries \/ attempts = numEntries * 5

C6_Step ==
    /\ (gpc = "loop" /\ gpc' = "loop") =>
          /\ attempts' = attempts + 1
          /\ Len(data) < numEntries /\ attempts < numEntries * 5
    /\ (gpc = "loop" /\ gpc' = "done") =>
          Len(data) = numEntries \/ attempts = numEntries * 5

\* C6: with a non-empty city pool the generator terminates; every pass of the
\* loop, also one that made a name already used or no name at all, uses up one
\* of numEntries x 5 attempts; the loop runs only while fewer than numEntries
\* entries are collected and attempts are left, and ends as soon as either
\* fails; running out of attempts returns what was collected with no error,
\* and an error is returned only for an empty city pool or job catalog.
C6_TerminatesWithinAttempts ==
    /\ []C6_Bounded
    /\ [][C6_Step]_vars
    /\ (Len(availableCities) > 0) ~> (gpc = "done")

C6_Witness ==
    /\ gpc = "done" /\ numEntries = 2 /\ Len(availableCities) = 2
    /\ attempts = 10 /\ gret = <<>> /\ gerr = "none"

-----------------------------------------------------------------------------
(* The samplers: the claim *)

Min(a, b) == IF a < b THEN a ELSE b
Max(a, b) == IF a > b THEN a ELSE b

\* how often v occurs in s
Count(s, v) == Cardinality({j \in 1..Len(s) : s[j] = v})

IsPermutationOf(res, pool) ==
    /\ Len(res) = Len(pool)
    /\ \A v \in Range(res) \cup Range(pool) : Count(res, v) = Count(pool, v)

\* res holds the elements of pairwise distinct positions of pool
FromDistinctPositions(res, pool) ==
    \E f \in [1..Len(res) -> 1..Len(pool)] :
        /\ \A a, b \in 1..Len(res) : a # b => f[a] # f[b]
        /\ \A j \in 1..Len(res) : res[j] = pool[f[j]]

SampleIsRight(pool, kk, res) ==
    /\ Len(res) = Min(Max(kk, 0), Len(pool))
    /\ FromDistinctPositions(res, pool)
    /\ kk <= 0 => res = <<>>
    /\ kk >= Len(pool) => IsPermutationOf(res, pool)

C7_Sampled ==
    /\ spc = "names" => SampleIsRight(names, k, sampledNames)
    /\ spc = "entries" => SampleIsRight(entries, k, sampledEntries)

\* C7: a sample has length clamp(k, 0, len(pool)), its elements come from
\* pairwise distinct positions of the pool (also when the pool holds equal
\* values), k <= 0 gives the empty sample, k >= len(pool) gives a permutation
\* of the pool, and the pool itself is left as it was.
C7_SampleWithoutReplacement ==
    /\ []C7_Sampled
    /\ [][names' = names /\ entries' = entries]_vars

C7_Witness ==
    /\ spc = "names" /\ k = 2
    /\ names = <<"Ann Lee", "Ann Lee", "Bo Lee">>
    /\ sampledNames = <<"Ann Lee", "Ann Lee">>
    /\ indices = <<1, 0, 2>>

-----------------------------------------------------------------------------
(* The render loop: the claims *)

\* the configuration the last iteration was for
LastConfig == At(promptConfigs(masterData), cfgIdx - 1)

LastOutcome == outcomes[Len(outcomes)]

IsFilterMode(config) ==
    config.QueryCount = 0 /\ Len(config.QueryIndices) = 0 /\ ~config.IsSequential

\* C8: the filter values a city-filter, job-filter, age+city-filter or
\* count-filter template is rendered with are matched, all of them together,
\* by at least one entry of the dataset.
C8_FilterHasMatch ==
    (cfgIdx >= 1 /\ canGenerate /\ IsFilterMode(LastConfig)) =>
        LET td == templateData
            c == LastConfig
        IN
        IF c.IsMultiCity
        THEN \E e \in Range(masterData) : e.City = td.TargetCity
        ELSE IF c.IsMultiJob
        THEN \E e \in Range(masterData) : e.JobTitle = td.TargetJobTitle
        ELSE IF c.IsMultiAgeCity
        THEN \E e \in Range(masterData), lo \in 18..90, hi \in 18..90 :
                /\ td.MinAge = Itoa(lo) /\ td.MaxAge = Itoa(hi)
                /\ e.City = td.TargetCity
                /\ lo <= e.Age /\ e.Age <= hi
        ELSE IF c.IsMultiCount
        THEN \E e \in Range(masterData) :
                e.JobTitle = td.TargetJobTitle /\ e.City = td.TargetCity
        ELSE TRUE

\* what the claim says a template needs of a dataset of n entries
RequirementsMet(config, n) ==
    IF config.QueryCount > 0
    THEN n >= (IF config.IsCombinedRequest THEN 3
               ELSE IF config.IsReverseLookup THEN 2 ELSE config.QueryCount)
    ELSE IF Len(config.QueryIndices) > 0
    THEN \A q \in 1..2 :
            (IF config.QueryIndices[q] >= n THEN n - 1 ELSE config.QueryIndices[q]) >= 0
    ELSE IF config.IsSequential THEN n >= 5
    ELSE n >= 1

WrittenPositions == {j \in 1..Len(outcomes) : outcomes[j] = "written"}

\* C9: a template whose requirements are not met, or whose parse, execute or
\* write fails, is passed over and the loop goes on: every template of the
\* catalog gets its turn, in order, before the run ends; a template is skipped
\* exactly when its requirements are not met; each template's file is written
\* at most once; and generatedCount is the number of templates written.
C9_SkipsNeverAbort ==
    LET configs == promptConfigs(masterData) IN
    /\ cfgIdx = Len(outcomes)
    /\ cfgIdx <= Len(configs)
    /\ rpc = "done" => Len(outcomes) = Len(configs)
    /\ \A j \in 1..Len(outcomes) :
          outcomes[j] = "skipped" <=> ~RequirementsMet(configs[j], Len(masterData))
    /\ generatedCount = Cardinality(WrittenPositions)
    /\ generatedCount = Len(files)
    /\ NoRepeats(files)
    /\ \A j \in 1..Len(outcomes) :
          outcomes[j] = "written" <=> FilePath(configs[j]) \in Range(files)

C9_Witness ==
    /\ rpc = "done" /\ Len(masterData) = 4 /\ generatedCount = 7
    /\ outcomes[1] = "skipped" /\ outcomes[5] = "written"
    /\ outcomes[6] = "failed" /\ outcomes[8] = "skipped"
    /\ outcomes[15] = "written"

\* C10 as stated: a fixed-count template rendered against a non-empty dataset
\* of fewer than QueryCount entries is not skipped, and its name list is the
\* whole dataset's names, each once.
C10_ShrinksInsteadOfSkipping ==
    (cfgIdx >= 1 /\ LastConfig.QueryCount > 0
        /\ Len(masterData) < LastConfig.QueryCount) =>
        /\ LastOutcome # "skipped"
        /\ canGenerate
        /\ IsPermutationOf(selectedNames, AllNames(masterData))

\* C10, amended: a fixed-count template rendered against a non-empty dataset
\* of fewer than QueryCount entries is skipped: nothing is sampled and no file
\* is written for it; and a fixed-count template that is not skipped has a name
\* list of exactly QueryCount names of the dataset, none of them twice.
C10_SkipsWhenTooFewEntries ==
    (cfgIdx >= 1 /\ LastConfig.QueryCount > 0) =>
        IF Len(masterData) < LastConfig.QueryCount
        THEN /\ LastOutcome = "skipped"
             /\ ~canGenerate
             /\ selectedNames = <<>>
             /\ FilePath(LastConfig) \notin Range(files)
        ELSE /\ LastOutcome # "skipped"
             /\ canGenerate
             /\ Len(selectedNames) = LastConfig.QueryCount
             /\ NoRepeats(selectedNames)
             /\ Range(selectedNames) \subseteq Range(AllNames(masterData))

C10_Witness ==
    /\ cfgIdx = 10 /\ LastConfig.IsConfirmation /\ Len(masterData) = 7
    /\ LastOutcome = "skipped" /\ ~canGenerate
    /\ outcomes[3] = "written"

=============================================================================
